---- MODULE Spec2Model ----
(***************************************************************************)
(* Model of the WebSocket subscription layer of go-binance                 *)
(* (v2/websocket_service.go): endpoint resolution, stream URL building,    *)
(* the connection transport and the per-stream message handlers; and of    *)
(* the asset index query of the futures package (v2/futures/asset_index.go).*)
(*                                                                         *)
(* Go strings are sequences of one-character strings, so that ToLower,     *)
(* ToUpper, Split and slicing are computed as the code computes them.      *)
(***************************************************************************)
EXTENDS Integers, Sequences, FiniteSets, TLC

VARIABLES
    UseTestnet,       \* process-wide flag read by getWsEndpoint/getCombinedEndpoint
    pc,               \* transport: "idle", "failed", "open", "closed", "crashed"
    fn,               \* the subscribe function of the current subscription
    arg,              \* the symbol argument of the subscribe call
    symbol,           \* the symbol captured by the wsPartialDepthServe closure
    endpoint,         \* cfg.Endpoint handed to wsServe
    err,              \* the err result of the subscribe call
    dials,            \* connection attempts made by wsServe
    doneC,            \* number of close(doneC) executed
    stopC,            \* TRUE once the caller has closed stopC
    last,             \* what the last read-loop iteration saw
    message,          \* the message of the last read-loop iteration
    handlerCalls,     \* invocations of the success handler in that iteration
    errHandlerCalls,  \* invocations of the error handler in that iteration
    event,            \* <<argument>> of the success handler, <<>> if not invoked
    log,              \* per message read so far: the callback its handler invoked
    body,             \* AssetIndexService.Do: what callAPI returned in the last call
    res,              \* AssetIndexService.Do: the res result of the last call
    resErr            \* AssetIndexService.Do: the err result of the last call

wsVars == <<UseTestnet, pc, fn, arg, symbol, endpoint, err, dials, doneC, stopC,
            last, message, handlerCalls, errHandlerCalls, event, log>>

restVars == <<body, res, resErr>>

vars == <<wsVars, restVars>>

---------------------------------------------------------------------------
(* Bounds of the model *)

MaxSymbols == 2
MaxMapSize == 2
MaxMessages == 2

---------------------------------------------------------------------------
(* Strings *)

UpperLetters == <<"A", "B", "C", "D", "E", "F", "G", "H", "I", "J", "K", "L", "M",
                  "N", "O", "P", "Q", "R", "S", "T", "U", "V", "W", "X", "Y", "Z">>
LowerLetters == <<"a", "b", "c", "d", "e", "f", "g", "h", "i", "j", "k", "l", "m",
                  "n", "o", "p", "q", "r", "s", "t", "u", "v", "w", "x", "y", "z">>

ToLowerChar(c) ==
    IF \E i \in DOMAIN UpperLetters : UpperLetters[i] = c
    THEN LowerLetters[CHOOSE i \in DOMAIN UpperLetters : UpperLetters[i] = c]
    ELSE c

ToUpperChar(c) ==
    IF \E i \in DOMAIN LowerLetters : LowerLetters[i] = c
    THEN UpperLetters[CHOOSE i \in DOMAIN LowerLetters : LowerLetters[i] = c]
    ELSE c

\* strings.ToLower
ToLower(s) == [i \in 1..Len(s) |-> ToLowerChar(s[i])]

\* strings.ToUpper
ToUpper(s) == [i \in 1..Len(s) |-> ToUpperChar(s[i])]

\* strings.Split(s, "@")[0]: the part of s before the first "@", s if it has none
SplitAt0(s) ==
    IF \E i \in 1..Len(s) : s[i] = "@"
    THEN SubSeq(s, 1, (CHOOSE i \in 1..Len(s) :
                          /\ s[i] = "@"
                          /\ \A j \in 1..(i - 1) : s[j] # "@") - 1)
    ELSE s

\* the slice forgotten: the separator after the last stream stays
TrimLast_Kept(s) == s

\* endpoint[:len(endpoint)-1]
TrimLast(s) == SubSeq(s, 1, Len(s) - 1)

HasPrefix(s, p) == Len(s) >= Len(p) /\ SubSeq(s, 1, Len(p)) = p

---------------------------------------------------------------------------
(* Endpoints *)

baseWsMainURL == <<"w", "s", "s", ":", "/", "/", "f", "s", "t", "r", "e", "a", "m", ".", "b", "i", "n", "a", "n", "c", "e", ".", "c", "o", "m", "/", "w", "s">>
baseWsTestnetURL == <<"w", "s", "s", ":", "/", "/", "t", "e", "s", "t", "n", "e", "t", ".", "b", "i", "n", "a", "n", "c", "e", ".", "v", "i", "s", "i", "o", "n", "/", "w", "s">>
baseCombinedMainURL == <<"w", "s", "s", ":", "/", "/", "f", "s", "t", "r", "e", "a", "m", ".", "b", "i", "n", "a", "n", "c", "e", ".", "c", "o", "m", "/", "s", "t", "r", "e", "a", "m", "?", "s", "t", "r", "e", "a", "m", "s", "=">>
baseCombinedTestnetURL == <<"w", "s", "s", ":", "/", "/", "t", "e", "s", "t", "n", "e", "t", ".", "b", "i", "n", "a", "n", "c", "e", ".", "v", "i", "s", "i", "o", "n", "/", "s", "t", "r", "e", "a", "m", "?", "s", "t", "r", "e", "a", "m", "s", "=">>

S_slash == <<"/">>
S_depth == <<"@", "d", "e", "p", "t", "h">>
S_100ms == <<"@", "1", "0", "0", "m", "s">>
S_kline == <<"@", "k", "l", "i", "n", "e", "_">>
S_aggTrade == <<"@", "a", "g", "g", "T", "r", "a", "d", "e">>
S_trade == <<"@", "t", "r", "a", "d", "e">>
S_ticker == <<"@", "t", "i", "c", "k", "e", "r">>
S_bookTicker == <<"@", "b", "o", "o", "k", "T", "i", "c", "k", "e", "r">>
S_assetIndexArr == <<"/", "!", "a", "s", "s", "e", "t", "I", "n", "d", "e", "x", "@", "a", "r", "r">>
S_tickerArr == <<"/", "!", "t", "i", "c", "k", "e", "r", "@", "a", "r", "r">>
S_miniTickerArr == <<"/", "!", "m", "i", "n", "i", "T", "i", "c", "k", "e", "r", "@", "a", "r", "r">>
S_allBookTicker == <<"/", "!", "b", "o", "o", "k", "T", "i", "c", "k", "e", "r">>
S_markPriceArr == <<"!", "m", "a", "r", "k", "P", "r", "i", "c", "e", "@", "a", "r", "r">>

\* getWsEndpoint, reading the flag
getWsEndpoint == IF UseTestnet THEN baseWsTestnetURL ELSE baseWsMainURL

\* getCombinedEndpoint, reading the flag
getCombinedEndpoint == IF UseTestnet THEN baseCombinedTestnetURL ELSE baseCombinedMainURL

---------------------------------------------------------------------------
(* Inputs of the subscribe calls *)

\* symbols as callers pass them: any casing
Symbols == { <<"b", "t">>, <<"B", "t">>, <<"E">> }

Levels == { <<"5">>, <<"1", "0">> }

Intervals == { <<"1", "m">>, <<"5", "m">> }

ListenKeys == { <<"k", "9">> }

\* the symbols that []string arguments are made of
ListSymbols == { <<"B", "t">>, <<"E">> }

\* []string arguments, the empty slice included
SymbolLists == UNION { [1..n -> ListSymbols] : n \in 0..MaxSymbols }

\* map[string]string arguments over the value set V, the empty map included
SymbolMaps(V) ==
    UNION { [K -> V] : K \in { K \in SUBSET Symbols : Cardinality(K) <= MaxMapSize } }

\* the orders in which a range statement may visit the keys of map m
RangeOrders(m) ==
    { o \in [1..Cardinality(DOMAIN m) -> DOMAIN m] :
        \A i, j \in DOMAIN o : i # j => o[i] # o[j] }

---------------------------------------------------------------------------
(* Stream URL builders *)

RECURSIVE ConcatAll(_)
ConcatAll(ss) == IF ss = <<>> THEN <<>> ELSE Head(ss) \o ConcatAll(Tail(ss))

\* for _, s := range symbols { endpoint += lower(s) + suffix + "/" }
AppendStreams(base, symbols, suffix) ==
    base \o ConcatAll([i \in 1..Len(symbols) |-> ToLower(symbols[i]) \o suffix \o S_slash])

\* the same loop without strings.ToLower
AppendMapStreams_KeysAsGiven(base, m, o, infix) ==
    base \o ConcatAll([i \in 1..Len(o) |-> o[i] \o infix \o m[o[i]] \o S_slash])

\* for s, v := range m { endpoint += lower(s) + infix + v + "/" }, keys visited in order o
AppendMapStreams(base, m, o, infix) ==
    base \o ConcatAll([i \in 1..Len(o) |-> ToLower(o[i]) \o infix \o m[o[i]] \o S_slash])

WsPartialDepthServe_endpoint(s, levels) ==
    getWsEndpoint \o S_slash \o ToLower(s) \o S_depth \o levels

WsPartialDepthServe100Ms_endpoint(s, levels) ==
    getWsEndpoint \o S_slash \o ToLower(s) \o S_depth \o levels \o S_100ms

WsCombinedPartialDepthServe_endpoint(symbolLevels, o) ==
    TrimLast(AppendMapStreams(getCombinedEndpoint, symbolLevels, o, S_depth))

WsDepthServe_endpoint(s) == getWsEndpoint \o S_slash \o ToLower(s) \o S_depth

WsDepthServe100Ms_endpoint(s) ==
    getWsEndpoint \o S_slash \o ToLower(s) \o S_depth \o S_100ms

WsCombinedDepthServe_endpoint(symbols) ==
    TrimLast(AppendStreams(getCombinedEndpoint, symbols, S_depth))

WsCombinedDepthServe100Ms_endpoint(symbols) ==
    TrimLast(AppendStreams(getCombinedEndpoint, symbols, S_depth \o S_100ms))

WsCombinedKlineServe_endpoint(symbolIntervalPair, o) ==
    TrimLast(AppendMapStreams(getCombinedEndpoint, symbolIntervalPair, o, S_kline))

WsKlineServe_endpoint(s, interval) ==
    getWsEndpoint \o S_slash \o ToLower(s) \o S_kline \o interval

WsAggTradeServe_endpoint(s) == getWsEndpoint \o S_slash \o ToLower(s) \o S_aggTrade

WsCombinedAggTradeServe_endpoint(symbols) ==
    TrimLast(AppendStreams(getCombinedEndpoint, symbols, S_aggTrade))

WsAssetIndexServer_endpoint == getWsEndpoint \o S_assetIndexArr

WsTradeServe_endpoint(s) == getWsEndpoint \o S_slash \o ToLower(s) \o S_trade

WsCombinedTradeServe_endpoint(symbols) ==
    TrimLast(AppendStreams(getCombinedEndpoint, symbols, S_trade))

WsUserDataServe_endpoint(listenKey) == getWsEndpoint \o S_slash \o listenKey

WsCombinedMarketStatServe_endpoint(symbols) ==
    TrimLast(AppendStreams(getCombinedEndpoint, symbols, S_ticker))

WsMarketStatServe_endpoint(s) == getWsEndpoint \o S_slash \o ToLower(s) \o S_ticker

WsAllMarketsStatServe_endpoint == getWsEndpoint \o S_tickerArr

WsAllMiniMarketsStatServe_endpoint == getWsEndpoint \o S_miniTickerArr

WsBookTickerServe_endpoint(s) == getWsEndpoint \o S_slash \o ToLower(s) \o S_bookTicker

\* starts from baseCombinedMainURL, not from getCombinedEndpoint()
WsCombinedBookTickerServe_endpoint(symbols) ==
    TrimLast(AppendStreams(baseCombinedMainURL, symbols, S_bookTicker))

WsAllBookTickerServe_endpoint == getWsEndpoint \o S_allBookTicker

WsCombinedMarkPriceForAllServe_endpoint == getCombinedEndpoint \o S_markPriceArr

---------------------------------------------------------------------------
(* JSON texts.  A message is the bytes read from the socket: either not     *)
(* JSON at all, or the text of one JSON value.  A number carries whether it *)
(* has a fractional part and whether it is beyond the range of int64, since *)
(* only integers within the range convert to int64.                         *)
(* Every record constructor of this module lists its fields in the order    *)
(* TLC keeps them in, so a value that TLC caches and hands to several       *)
(* workers is never rearranged in place; the order of the fields of a       *)
(* record has no meaning.                                                   *)

JNull == [t |-> "null"]
JString(s) == [s |-> s, t |-> "string"]
JNumber(n) == [n |-> n, t |-> "number", frac |-> FALSE, over |-> FALSE]
JFraction(n) == [n |-> n, t |-> "number", frac |-> TRUE, over |-> FALSE]
\* an integer above math.MaxInt64, such as 9223372036854775808
JOverflow == [n |-> 0, t |-> "number", frac |-> FALSE, over |-> TRUE]
JBool(b) == [t |-> "bool", b |-> b]
JArray(a) == [t |-> "array", a |-> a]
JObject(o) == [o |-> o, t |-> "object"]

NotJSON == [json |-> FALSE]
Bytes(j) == [j |-> j, json |-> TRUE]

\* the object o without key k
Drop(j, k) == JObject([x \in (DOMAIN j.o) \ {k} |-> j.o[x]])

\* the object o with key k set to v
Put(j, k, v) == JObject([x \in (DOMAIN j.o) \cup {k} |-> IF x = k THEN v ELSE j.o[x]])

---------------------------------------------------------------------------
(* The untyped JSON tree (go-simplejson, decoding numbers as json.Number)   *)

\* newJSON(message): (j, err)
newJSON(m) == [err |-> ~m.json, j |-> IF m.json THEN m.j ELSE JNull]

\* j.Get(key): never a nil *Json; wraps nil when j is no object or lacks key
Get(j, key) == IF j.t = "object" /\ key \in DOMAIN j.o THEN j.o[key] ELSE JNull

\* j.GetIndex(i), i counted from 0
GetIndex(j, i) == IF j.t = "array" /\ Len(j.a) > i THEN j.a[i + 1] ELSE JNull

MustString(j) == IF j.t = "string" THEN j.s ELSE <<>>

\* j.MustInt64(): the default 0 whenever Int64() reports an error
MustInt64(j) == IF j.t = "number" /\ ~j.frac /\ ~j.over THEN j.n ELSE 0

MustArray(j) == IF j.t = "array" THEN j.a ELSE <<>>

\* j.MustMap(): a nil map when j is no object
MustMap(j) == IF j.t = "object" THEN [m |-> j.o, nil |-> FALSE] ELSE [m |-> <<>>, nil |-> TRUE]

\* data[key] on a map[string]interface{}: nil when the key is missing
MapIndex(data, key) == IF key \in DOMAIN data.m THEN data.m[key] ELSE JNull

\* v, found := data[key]
MapFound(data, key) == key \in DOMAIN data.m

\* math.MaxInt64, which strconv.ParseInt returns with its range error; it
\* stands here as the largest integer of the model
MaxInt64 == 2147483647

\* x.(stdjson.Number).Int64() with the error dropped: what strconv.ParseInt
\* returns beside its error, 0 when not an integer and MaxInt64 when too large
NumberInt64(x) == IF x.frac THEN 0 ELSE IF x.over THEN MaxInt64 ELSE x.n

\* json.Marshal of a map[string]interface{}: "null" for the nil map
MarshalMap(data) == IF data.nil THEN JNull ELSE JObject(data.m)

---------------------------------------------------------------------------
(* Typed decoding (json.Unmarshal into tagged structs)                      *)
(* Go values: string = sequence of characters, int64 = integer, bool,       *)
(* struct = record over the Go field names, pointer = <<>> (nil) or <<v>>,  *)
(* slice = sequence.                                                        *)

T_string == [k |-> "string"]
T_int64 == [k |-> "int64"]
T_bool == [k |-> "bool"]
T_struct(fields) == [k |-> "struct", fields |-> fields]
T_ptr(elem) == [k |-> "ptr", elem |-> elem]
T_slice(elem) == [k |-> "slice", elem |-> elem]

F(name, tag, ty) == [name |-> name, tag |-> tag, ty |-> ty]

FieldNames(T) == { T.fields[i].name : i \in DOMAIN T.fields }

FieldIndex(T, name) == CHOOSE i \in DOMAIN T.fields : T.fields[i].name = name

RECURSIVE Zero(_)
Zero(T) ==
    CASE T.k = "string" -> <<>>
      [] T.k = "int64" -> 0
      [] T.k = "bool" -> FALSE
      [] T.k = "ptr" -> <<>>
      [] T.k = "slice" -> <<>>
      [] T.k = "struct" ->
            [n \in FieldNames(T) |-> Zero(T.fields[FieldIndex(T, n)].ty)]

\* key folding of the field matcher: an object key that equals no tag exactly
\* matches the first field whose tag is equal to it ignoring case
FoldKey(key) ==
    IF \E i \in DOMAIN UpperLetters : UpperLetters[i] = key
    THEN LowerLetters[CHOOSE i \in DOMAIN UpperLetters : UpperLetters[i] = key]
    ELSE IF key \in {"AP", "Ap", "aP"} THEN "ap"
    ELSE IF key \in {"AC", "Ac", "aC"} THEN "ac"
    ELSE IF key \in {"DATA", "Data"} THEN "data"
    ELSE IF key \in {"STREAM", "Stream"} THEN "stream"
    ELSE key

\* the field (index) of T that object key `key` is decoded into, 0 if none
FieldFor(T, key) ==
    IF \E i \in DOMAIN T.fields : T.fields[i].tag = key
    THEN CHOOSE i \in DOMAIN T.fields : T.fields[i].tag = key
    ELSE IF \E i \in DOMAIN T.fields : FoldKey(T.fields[i].tag) = FoldKey(key)
    THEN CHOOSE i \in DOMAIN T.fields :
            /\ FoldKey(T.fields[i].tag) = FoldKey(key)
            /\ \A h \in 1..(i - 1) : FoldKey(T.fields[h].tag) # FoldKey(key)
    ELSE 0

\* the object keys decoded into field i; the exact tag wins when present
KeysFor(T, i, o) ==
    IF T.fields[i].tag \in DOMAIN o
    THEN {T.fields[i].tag}
    ELSE { key \in DOMAIN o : FieldFor(T, key) = i }

\* Decode(T, j, cur): decode JSON value j into a Go value of type T that
\* currently holds cur.  err is TRUE when any part does not fit its type;
\* JSON null leaves a non-pointer value as it is and is no error.
RECURSIVE Decode(_, _, _)
Decode(T, j, cur) ==
    IF j.t = "null"
    THEN [err |-> FALSE, v |-> IF T.k \in {"ptr", "slice"} THEN <<>> ELSE cur]
    ELSE CASE T.k = "string" ->
                IF j.t = "string" THEN [err |-> FALSE, v |-> j.s]
                ELSE [err |-> TRUE, v |-> cur]
           [] T.k = "int64" ->
                IF j.t = "number" /\ ~j.frac /\ ~j.over THEN [err |-> FALSE, v |-> j.n]
                ELSE [err |-> TRUE, v |-> cur]
           [] T.k = "bool" ->
                IF j.t = "bool" THEN [err |-> FALSE, v |-> j.b]
                ELSE [err |-> TRUE, v |-> cur]
           [] T.k = "ptr" ->
                LET r == Decode(T.elem, j, IF cur = <<>> THEN Zero(T.elem) ELSE cur[1])
                IN  [err |-> r.err, v |-> <<r.v>>]
           [] T.k = "slice" ->
                IF j.t = "array"
                THEN LET rs == [i \in 1..Len(j.a) |-> Decode(T.elem, j.a[i], Zero(T.elem))]
                     IN  [err |-> \E i \in DOMAIN rs : rs[i].err,
                          v |-> [i \in DOMAIN rs |-> rs[i].v]]
                ELSE [err |-> TRUE, v |-> cur]
           [] T.k = "struct" ->
                IF j.t = "object"
                THEN LET rs == [i \in DOMAIN T.fields |->
                                  LET ks == KeysFor(T, i, j.o)
                                  IN  IF ks = {}
                                      THEN [err |-> FALSE, v |-> cur[T.fields[i].name]]
                                      ELSE Decode(T.fields[i].ty, j.o[CHOOSE key \in ks : TRUE],
                                                  cur[T.fields[i].name])]
                     IN  [err |-> \E i \in DOMAIN rs : rs[i].err,
                          v |-> [n \in FieldNames(T) |-> rs[FieldIndex(T, n)].v]]
                ELSE [err |-> TRUE, v |-> cur]

\* json.Unmarshal(message, target) on raw bytes: a syntax error when not JSON
Unmarshal(T, m, cur) ==
    IF ~m.json THEN [err |-> TRUE, v |-> cur] ELSE Decode(T, m.j, cur)

---------------------------------------------------------------------------
(* Event types, by their json tags *)

WsKline ==
    T_struct(<<
        F("StartTime", "t", T_int64),
        F("EndTime", "T", T_int64),
        F("Symbol", "s", T_string),
        F("Interval", "i", T_string),
        F("FirstTradeID", "f", T_int64),
        F("LastTradeID", "L", T_int64),
        F("Open", "o", T_string),
        F("Close", "c", T_string),
        F("High", "h", T_string),
        F("Low", "l", T_string),
        F("Volume", "v", T_string),
        F("TradeNum", "n", T_int64),
        F("IsFinal", "x", T_bool),
        F("QuoteVolume", "q", T_string),
        F("ActiveBuyVolume", "V", T_string),
        F("ActiveBuyQuoteVolume", "Q", T_string) >>)

WsKlineEvent ==
    T_struct(<<
        F("Event", "e", T_string),
        F("Time", "E", T_int64),
        F("Symbol", "s", T_string),
        F("Kline", "k", WsKline) >>)

WsAggTradeEvent ==
    T_struct(<<
        F("Event", "e", T_string),
        F("Time", "E", T_int64),
        F("Symbol", "s", T_string),
        F("AggTradeID", "a", T_int64),
        F("Price", "p", T_string),
        F("Quantity", "q", T_string),
        F("FirstBreakdownTradeID", "f", T_int64),
        F("LastBreakdownTradeID", "l", T_int64),
        F("TradeTime", "T", T_int64),
        F("IsBuyerMaker", "m", T_bool),
        F("Placeholder", "M", T_bool) >>)

WsAssetIndexEvent ==
    T_struct(<<
        F("Event", "e", T_string),
        F("Symbol", "s", T_string),
        F("Time", "E", T_int64),
        F("Index", "i", T_string),
        F("BidBuffer", "b", T_string),
        F("AskBuffer", "a", T_string),
        F("BidRate", "B", T_string),
        F("AskRate", "A", T_string),
        F("AutoExchangeBidBuffer", "q", T_string),
        F("AutoExchangeAskBuffer", "g", T_string),
        F("AutoExchangeBidRate", "Q", T_string),
        F("AutoExchangeAskRate", "G", T_string) >>)

WsTradeEvent ==
    T_struct(<<
        F("Event", "e", T_string),
        F("Time", "E", T_int64),
        F("Symbol", "s", T_string),
        F("TradeID", "t", T_int64),
        F("Price", "p", T_string),
        F("Quantity", "q", T_string),
        F("BuyerOrderID", "b", T_int64),
        F("SellerOrderID", "a", T_int64),
        F("TradeTime", "T", T_int64),
        F("IsBuyerMaker", "m", T_bool),
        F("Placeholder", "M", T_bool) >>)

WsCombinedTradeEvent ==
    T_struct(<<
        F("Stream", "stream", T_string),
        F("Data", "data", WsTradeEvent) >>)

WSAccountConfigUpdate ==
    T_struct(<<
        F("Symbol", "s", T_string),
        F("Leverage", "l", T_int64) >>)

WsPositionUpdate ==
    T_struct(<<
        F("Symbol", "s", T_string),
        F("PositionAmount", "pa", T_string),
        F("EntryPrice", "ep", T_string),
        F("AccumulatedRealized", "cr", T_string),
        F("UnrealizedPL", "up", T_string),
        F("MarginType", "mt", T_string),
        F("IsolatedWallet", "iw", T_string),
        F("PositionSide", "ps", T_string) >>)

WsBalanceUpdate ==
    T_struct(<<
        F("Asset", "a", T_string),
        F("WalletBalance", "wb", T_string),
        F("CrossWalletBalance", "cw", T_string),
        F("BalanceChange", "bc", T_string) >>)

WsAccountUpdateList ==
    T_struct(<<
        F("EventType", "m", T_string),
        F("Balances", "B", T_slice(WsBalanceUpdate)),
        F("Positions", "P", T_slice(WsPositionUpdate)) >>)

WsOrderUpdate ==
    T_struct(<<
        F("Id", "i", T_int64),
        F("Symbol", "s", T_string),
        F("ClientOrderId", "c", T_string),
        F("Side", "S", T_string),
        F("Type", "o", T_string),
        F("TimeInForce", "f", T_string),
        F("Volume", "q", T_string),
        F("OrgPrice", "p", T_string),
        F("ArgPrice", "ap", T_string),
        F("StopPrice", "sp", T_string),
        F("ExecutionType", "x", T_string),
        F("Status", "X", T_string),
        F("LatestVolume", "l", T_string),
        F("FilledVolume", "z", T_string),
        F("LatestPrice", "L", T_string),
        F("FeeAsset", "N", T_string),
        F("FeeCost", "n", T_string),
        F("TransactionTime", "T", T_int64),
        F("TradeId", "t", T_int64),
        F("BidNotional", "b", T_string),
        F("AskNotional", "a", T_string),
        F("IsMaker", "m", T_bool),
        F("IsReduceOnly", "R", T_bool),
        F("OrgOrderType", "ot", T_string),
        F("PositionSide", "ps", T_string),
        F("ActivationPrice", "AP", T_string),
        F("RealizedProfit", "rp", T_string) >>)

WsUserDataEvent ==
    T_struct(<<
        F("Event", "e", T_string),
        F("Time", "E", T_int64),
        F("TransactionTime", "T", T_int64),
        F("AccountUpdateTime", "u", T_int64),
        F("OrderUpdate", "o", T_ptr(WsOrderUpdate)),
        F("AccountUpdate", "a", T_ptr(WsAccountUpdateList)),
        F("AccountConfigUpdate", "ac", T_ptr(WSAccountConfigUpdate)) >>)

WsMarketStatEvent ==
    T_struct(<<
        F("Event", "e", T_string),
        F("Time", "E", T_int64),
        F("Symbol", "s", T_string),
        F("PriceChange", "p", T_string),
        F("PriceChangePercent", "P", T_string),
        F("WeightedAvgPrice", "w", T_string),
        F("PrevClosePrice", "x", T_string),
        F("LastPrice", "c", T_string),
        F("CloseQty", "Q", T_string),
        F("BidPrice", "b", T_string),
        F("BidQty", "B", T_string),
        F("AskPrice", "a", T_string),
        F("AskQty", "A", T_string),
        F("OpenPrice", "o", T_string),
        F("HighPrice", "h", T_string),
        F("LowPrice", "l", T_string),
        F("BaseVolume", "v", T_string),
        F("QuoteVolume", "q", T_string),
        F("OpenTime", "O", T_int64),
        F("CloseTime", "C", T_int64),
        F("FirstID", "F", T_int64),
        F("LastID", "L", T_int64),
        F("Count", "n", T_int64) >>)

WsMiniMarketsStatEvent ==
    T_struct(<<
        F("Event", "e", T_string),
        F("Time", "E", T_int64),
        F("Symbol", "s", T_string),
        F("LastPrice", "c", T_string),
        F("OpenPrice", "o", T_string),
        F("HighPrice", "h", T_string),
        F("LowPrice", "l", T_string),
        F("BaseVolume", "v", T_string),
        F("QuoteVolume", "q", T_string) >>)

WsBookTickerEvent ==
    T_struct(<<
        F("UpdateID", "u", T_int64),
        F("Symbol", "s", T_string),
        F("BestBidPrice", "b", T_string),
        F("BestBidQty", "B", T_string),
        F("BestAskPrice", "a", T_string),
        F("BestAskQty", "A", T_string) >>)

WsCombinedBookTickerEvent ==
    T_struct(<<
        F("Data", "data", T_ptr(WsBookTickerEvent)),
        F("Stream", "stream", T_string) >>)

WsMarkPriceEvent ==
    T_struct(<<
        F("Event", "e", T_string),
        F("Time", "E", T_int64),
        F("Symbol", "s", T_string),
        F("MarkPrice", "p", T_string),
        F("IndexPrice", "i", T_string),
        F("EstimatedSettlePrice", "P", T_string),
        F("FundingRate", "r", T_string),
        F("NextFundingTime", "T", T_int64) >>)

\* []WsAssetIndexEvent
WsAssetIndexEvents == T_slice(WsAssetIndexEvent)

\* WsAllMarketsStatEvent []*WsMarketStatEvent
WsAllMarketsStatEvent == T_slice(T_ptr(WsMarketStatEvent))

\* WsAllMiniMarketsStatEvent []*WsMiniMarketsStatEvent
WsAllMiniMarketsStatEvent == T_slice(T_ptr(WsMiniMarketsStatEvent))

\* WsMarkPriceForAllEvent []*WsMarkPriceEvent
WsMarkPriceForAllEvent == T_slice(T_ptr(WsMarkPriceEvent))

---------------------------------------------------------------------------
(* What one run of a message handler does: the callbacks it invokes, the    *)
(* argument of the success handler, or a panic (a failed type assertion or  *)
(* an index out of range).  A handler argument is the value pointed to,     *)
(* NilPtr for a nil pointer.                                                *)

NoEvent == [none |-> TRUE]
NilPtr == [nil |-> TRUE]

Deref(p) == IF p = <<>> THEN NilPtr ELSE p[1]

\* go handler(event): the callback is handed to another goroutine
OnEvent_Spawned(ev) ==
    [event |-> ev, handler |-> 1, errHandler |-> 0, panic |-> FALSE, inline |-> FALSE]

\* handler(event): a plain call, which returns before the message handler does
OnEvent(ev) ==
    [event |-> ev, handler |-> 1, errHandler |-> 0, panic |-> FALSE, inline |-> TRUE]

\* errHandler(err) without the return: the handler goes on to handler(event)
OnError_NoReturn ==
    [event |-> NoEvent, handler |-> 1, errHandler |-> 1, panic |-> FALSE, inline |-> TRUE]

\* errHandler(err); return
OnError ==
    [event |-> NoEvent, handler |-> 0, errHandler |-> 1, panic |-> FALSE, inline |-> TRUE]

\* run-time panic inside the handler
OnPanic ==
    [event |-> NoEvent, handler |-> 0, errHandler |-> 0, panic |-> TRUE, inline |-> TRUE]

\* the callback one run of a message handler ended with
Callback(out) ==
    CASE out.panic -> "panic"
      [] out.handler > 0 /\ out.errHandler > 0 -> "both"
      [] out.handler > 0 -> "handler"
      [] out.errHandler > 0 -> "errHandler"
      [] OTHER -> "none"

\* event := new(T); err := json.Unmarshal(message, event); handler(event)
UnmarshalThenHandle(T, m) ==
    LET r == Unmarshal(T, m, Zero(T))
    IN  IF r.err THEN OnError ELSE OnEvent(r.v)

---------------------------------------------------------------------------
(* Depth handlers (untyped tree) *)

\* the Bids/Asks loop of the flat handlers: Must* getters, zero values on mismatch
TreeLevels(j, key) ==
    [i \in 1..Len(MustArray(Get(j, key))) |->
        [Price |-> MustString(GetIndex(GetIndex(Get(j, key), i - 1), 0)),
         Quantity |-> MustString(GetIndex(GetIndex(Get(j, key), i - 1), 1))]]

\* the Bids/Asks loop of the combined handlers panics unless x is an array of
\* arrays that each start with two strings
LevelsAssertOk(x) ==
    /\ x.t = "array"
    /\ \A i \in 1..Len(x.a) :
          /\ x.a[i].t = "array"
          /\ Len(x.a[i].a) >= 2
          /\ x.a[i].a[1].t = "string"
          /\ x.a[i].a[2].t = "string"

AssertedLevels(x) ==
    [i \in 1..Len(x.a) |-> [Price |-> x.a[i].a[1].s, Quantity |-> x.a[i].a[2].s]]

\* wsHandler of wsPartialDepthServe; sym is the symbol the caller passed
wsPartialDepthServe_wsHandler(sym, m) ==
    LET r == newJSON(m)
        j == r.j
    IN  IF r.err THEN OnError
        ELSE OnEvent([Symbol |-> sym,
                      LastUpdateID |-> MustInt64(Get(j, "lastUpdateId")),
                      Bids |-> TreeLevels(j, "bids"),
                      Asks |-> TreeLevels(j, "asks")])

\* wsHandler of WsCombinedPartialDepthServe
WsCombinedPartialDepthServe_wsHandler(m) ==
    LET r == newJSON(m)
        j == r.j
        stream == MustString(Get(j, "stream"))
        sym == SplitAt0(stream)
        data == MustMap(Get(j, "data"))
    IN  IF r.err THEN OnError
        ELSE IF \/ MapIndex(data, "lastUpdateId").t # "number"
                \/ ~LevelsAssertOk(MapIndex(data, "bids"))
                \/ ~LevelsAssertOk(MapIndex(data, "asks"))
        THEN OnPanic
        ELSE OnEvent([Symbol |-> ToUpper(sym),
                      LastUpdateID |-> NumberInt64(MapIndex(data, "lastUpdateId")),
                      Bids |-> AssertedLevels(MapIndex(data, "bids")),
                      Asks |-> AssertedLevels(MapIndex(data, "asks"))])

\* wsHandler of wsDepthServe; j.Get("pu") is never nil, so the branch is always taken
wsDepthServe_wsHandler(m) ==
    LET r == newJSON(m)
        j == r.j
    IN  IF r.err THEN OnError
        ELSE OnEvent([Symbol |-> MustString(Get(j, "s")),
                      LastUpdateID |-> MustInt64(Get(j, "u")),
                      Bids |-> TreeLevels(j, "b"),
                      Asks |-> TreeLevels(j, "a"),
                      Event |-> MustString(Get(j, "e")),
                      Time |-> MustInt64(Get(j, "E")),
                      FirstUpdateID |-> MustInt64(Get(j, "U")),
                      LastUpdateIDInLastStream |-> MustInt64(Get(j, "pu"))])

\* wsHandler of wsCombinedDepthServe
wsCombinedDepthServe_wsHandler(m) ==
    LET r == newJSON(m)
        j == r.j
        stream == MustString(Get(j, "stream"))
        sym == SplitAt0(stream)
        data == MustMap(Get(j, "data"))
    IN  IF r.err THEN OnError
        ELSE IF \/ MapIndex(data, "e").t # "string"
                \/ MapIndex(data, "E").t # "number"
                \/ MapIndex(data, "u").t # "number"
                \/ MapIndex(data, "U").t # "number"
                \/ (MapFound(data, "pu") /\ MapIndex(data, "pu").t # "number")
                \/ ~LevelsAssertOk(MapIndex(data, "b"))
                \/ ~LevelsAssertOk(MapIndex(data, "a"))
        THEN OnPanic
        ELSE OnEvent([Symbol |-> ToUpper(sym),
                      LastUpdateID |-> NumberInt64(MapIndex(data, "u")),
                      Bids |-> AssertedLevels(MapIndex(data, "b")),
                      Asks |-> AssertedLevels(MapIndex(data, "a")),
                      Event |-> MapIndex(data, "e").s,
                      Time |-> NumberInt64(MapIndex(data, "E")),
                      FirstUpdateID |-> NumberInt64(MapIndex(data, "U")),
                      LastUpdateIDInLastStream |->
                          IF MapFound(data, "pu") THEN NumberInt64(MapIndex(data, "pu")) ELSE 0])

---------------------------------------------------------------------------
(* Handlers that decode into tagged structs *)

\* the combined handlers of kline, aggTrade and ticker: the tree gives stream
\* and data, data is marshalled again and decoded into T, then Symbol is
\* overwritten from the stream name
EnvelopeThenHandle(T, m) ==
    LET r == newJSON(m)
        j == r.j
        stream == MustString(Get(j, "stream"))
        data == MustMap(Get(j, "data"))
        sym == SplitAt0(stream)
        jsonData == MarshalMap(data)
        u == Decode(T, jsonData, Zero(T))
    IN  IF r.err THEN OnError
        ELSE IF u.err THEN OnError
        ELSE OnEvent([u.v EXCEPT !.Symbol = ToUpper(sym)])

WsCombinedKlineServe_wsHandler(m) == EnvelopeThenHandle(WsKlineEvent, m)

WsKlineServe_wsHandler(m) == UnmarshalThenHandle(WsKlineEvent, m)

WsAggTradeServe_wsHandler(m) == UnmarshalThenHandle(WsAggTradeEvent, m)

WsCombinedAggTradeServe_wsHandler(m) == EnvelopeThenHandle(WsAggTradeEvent, m)

WsAssetIndexServer_wsHandler(m) == UnmarshalThenHandle(WsAssetIndexEvents, m)

WsTradeServe_wsHandler(m) == UnmarshalThenHandle(WsTradeEvent, m)

\* delivers the whole envelope; Data.Symbol is whatever data carries
WsCombinedTradeServe_wsHandler(m) == UnmarshalThenHandle(WsCombinedTradeEvent, m)

WsUserDataServe_wsHandler(m) == UnmarshalThenHandle(WsUserDataEvent, m)

WsCombinedMarketStatServe_wsHandler(m) == EnvelopeThenHandle(WsMarketStatEvent, m)

WsMarketStatServe_wsHandler(m) == UnmarshalThenHandle(WsMarketStatEvent, m)

WsAllMarketsStatServe_wsHandler(m) == UnmarshalThenHandle(WsAllMarketsStatEvent, m)

\* the success handler called once for each record of the array
WsAllMiniMarketsStatServe_wsHandler_PerRecord(m) ==
    LET r == Unmarshal(WsAllMiniMarketsStatEvent, m, Zero(WsAllMiniMarketsStatEvent))
    IN  IF r.err THEN OnError
        ELSE [OnEvent(IF r.v = <<>> THEN NoEvent ELSE <<r.v[Len(r.v)]>>) EXCEPT !.handler = Len(r.v)]

WsAllMiniMarketsStatServe_wsHandler(m) == UnmarshalThenHandle(WsAllMiniMarketsStatEvent, m)

\* event := new(WsBookTickerEvent); json.Unmarshal(message, &event): the target is
\* the pointer itself, which JSON null sets to nil
WsBookTickerServe_wsHandler(m) ==
    LET r == Unmarshal(T_ptr(WsBookTickerEvent), m, <<Zero(WsBookTickerEvent)>>)
    IN  IF r.err THEN OnError ELSE OnEvent(Deref(r.v))

\* handler(event.Data): the data pointer, nil when the envelope has no data
WsCombinedBookTickerServe_wsHandler(m) ==
    LET r == Unmarshal(WsCombinedBookTickerEvent, m, Zero(WsCombinedBookTickerEvent))
    IN  IF r.err THEN OnError ELSE OnEvent(Deref(r.v.Data))

WsAllBookTickerServe_wsHandler(m) ==
    LET r == Unmarshal(T_ptr(WsBookTickerEvent), m, <<Zero(WsBookTickerEvent)>>)
    IN  IF r.err THEN OnError ELSE OnEvent(Deref(r.v))

\* data := j.Get("data"); json.Marshal(data) gives the text of data, "null" if absent
WsCombinedMarkPriceForAllServe_wsHandler(m) ==
    LET r == newJSON(m)
        jsonData == Get(r.j, "data")
        u == Decode(WsMarkPriceForAllEvent, jsonData, Zero(WsMarkPriceForAllEvent))
    IN  IF r.err THEN OnError
        ELSE IF u.err THEN OnError
        ELSE OnEvent(u.v)

---------------------------------------------------------------------------
(* Messages the socket may deliver *)

MaxRecords == 2

\* symbols as they appear inside payloads
DataSymbols == { <<"B", "T">>, <<"e">> }

\* stream names of combined envelopes
StreamNames(suffix) == { <<"b", "t">> \o suffix, <<"e">> \o suffix }

Tags(T) == { T.fields[i].tag : i \in DOMAIN T.fields }

TagType(T, tag) == T.fields[CHOOSE i \in DOMAIN T.fields : T.fields[i].tag = tag].ty

\* a well-formed JSON value for type T
RECURSIVE Sample(_)
Sample(T) ==
    CASE T.k = "string" -> JString(<<"1">>)
      [] T.k = "int64" -> JNumber(7)
      [] T.k = "bool" -> JBool(TRUE)
      [] T.k = "ptr" -> Sample(T.elem)
      [] T.k = "slice" -> JArray(<<Sample(T.elem)>>)
      [] T.k = "struct" -> JObject([tag \in Tags(T) |-> Sample(TagType(T, tag))])

\* a JSON value of the wrong type for T
WrongType(T) == IF T.k = "string" THEN JNumber(1) ELSE JString(<<"x">>)

ProbeKeys == {"e", "E", "s", "u"}

\* payloads for struct type T: every payload symbol, the symbol under key "S",
\* and for each probed key the payload without it and with a wrong type for it
GoodPayloads(T) == { Put(Sample(T), "s", JString(s)) : s \in DataSymbols }

Payloads(T) ==
    GoodPayloads(T)
      \cup { Put(Drop(Sample(T), "s"), "S", JString(s)) : s \in { x \in DataSymbols : "S" \notin Tags(T) } }
      \cup { Drop(Sample(T), key) : key \in ProbeKeys \cap Tags(T) }
      \cup { Put(Sample(T), key, WrongType(TagType(T, key))) : key \in ProbeKeys \cap Tags(T) }
      \cup { Put(Sample(T), key, JNull) : key \in {"s"} \cap Tags(T) }

\* texts that are no object at all
Malformed ==
    { NotJSON, Bytes(JNull), Bytes(JArray(<<>>)), Bytes(JString(<<"x">>)), Bytes(JObject(<<>>)) }

FlatMessages(T) == Malformed \cup { Bytes(d) : d \in Payloads(T) }

Envelope(stream, data) ==
    JObject([key \in {"stream", "data"} |-> IF key = "stream" THEN JString(stream) ELSE data])

\* envelopes around the payloads ds under one stream name and around the
\* well-formed payloads good under every stream name, and envelopes that lack or
\* mistype a part
Envelopes(suffix, ds, good) ==
    { Envelope(<<"b", "t">> \o suffix, d) : d \in ds }
      \cup { Envelope(st, d) : st \in StreamNames(suffix), d \in good }
      \cup { Drop(Envelope(st, d), "data") : st \in StreamNames(suffix), d \in {JNull} }
      \cup { Envelope(<<"b", "t">> \o suffix, d) : d \in {JNull, JString(<<"x">>), JObject(<<>>)} }
      \cup { Drop(Envelope(<<>>, d), "stream") : d \in good }
      \cup { Put(Envelope(<<>>, d), "stream", JNumber(1)) : d \in good }
      \cup { Envelope(<<"b", "t">>, d) : d \in good }

CombinedMessages(suffix, T) ==
    Malformed \cup { Bytes(j) : j \in Envelopes(suffix, Payloads(T), GoodPayloads(T)) }

\* bare arrays of up to MaxRecords records, and arrays with a null or bad element
ArrayMessages(T) ==
    LET recs == { Put(Sample(T), "s", JString(s)) : s \in DataSymbols }
        arrays == UNION { [1..n -> recs] : n \in 0..MaxRecords }
    IN  Malformed
          \cup { Bytes(JArray(a)) : a \in arrays }
          \cup { Bytes(JArray(<<r, JNull>>)) : r \in recs }
          \cup { Bytes(JArray(<<Put(r, "s", JNumber(1))>>)) : r \in recs }
          \cup { Bytes(r) : r \in recs }

S_depthUpdate == <<"d", "e", "p", "t", "h", "U", "p", "d", "a", "t", "e">>

Level(p, q) == JArray(<<JString(p), JString(q)>>)

\* a well-formed depth payload for symbol s, with pu
DepthData(s) ==
    JObject([key \in {"e", "E", "s", "U", "u", "pu", "b", "a"} |->
        CASE key = "e" -> JString(S_depthUpdate)
          [] key = "E" -> JNumber(7)
          [] key = "s" -> JString(s)
          [] key = "U" -> JNumber(1)
          [] key = "u" -> JNumber(2)
          [] key = "pu" -> JNumber(5)
          [] key = "b" -> JArray(<<Level(<<"1">>, <<"2">>)>>)
          [] key = "a" -> JArray(<<Level(<<"3">>, <<"4">>), Level(<<"5">>, <<"6">>)>>)])

DepthWrongType(key) ==
    IF key \in {"e", "s"} THEN JNumber(1) ELSE JString(<<"x">>)

\* depth payloads: with pu, without pu, with pu 0, with pu null; each key
\* missing or mistyped; a fractional number; a number beyond int64; price levels that are too short,
\* not strings or not arrays; no levels
DepthPayloads ==
    LET base == DepthData(<<"B", "T">>)
    IN  { DepthData(s) : s \in DataSymbols }
          \cup { Drop(DepthData(s), "pu") : s \in DataSymbols }
          \cup { Put(DepthData(s), "pu", JNumber(0)) : s \in DataSymbols }
          \cup { Put(base, "pu", JNull) }
          \cup { Drop(base, key) : key \in {"e", "E", "s", "U", "u", "b", "a"} }
          \cup { Put(base, key, DepthWrongType(key)) : key \in {"e", "E", "s", "U", "u", "pu", "b", "a"} }
          \cup { Put(base, "E", JFraction(7)), Put(base, "u", JOverflow) }
          \cup { Put(base, "b", JArray(<<JArray(<<JString(<<"1">>)>>)>>)),
                 Put(base, "a", JArray(<<JArray(<<JString(<<"1">>), JNumber(2)>>)>>)),
                 Put(base, "b", JArray(<<JString(<<"1">>)>>)),
                 Put(Put(base, "b", JArray(<<>>)), "a", JArray(<<>>)) }

FlatDepthMessages == Malformed \cup { Bytes(d) : d \in DepthPayloads }

CombinedDepthMessages ==
    Malformed
      \cup { Bytes(j) : j \in Envelopes(S_depth, DepthPayloads,
                                         { DepthData(s) : s \in DataSymbols }) }

\* a well-formed partial depth payload
PartialDepthData ==
    JObject([key \in {"lastUpdateId", "bids", "asks"} |->
        CASE key = "lastUpdateId" -> JNumber(9)
          [] key = "bids" -> JArray(<<Level(<<"1">>, <<"2">>)>>)
          [] key = "asks" -> JArray(<<Level(<<"3">>, <<"4">>), Level(<<"5">>, <<"6">>)>>)])

PartialDepthPayloads ==
    { PartialDepthData }
      \cup { Drop(PartialDepthData, key) : key \in {"lastUpdateId", "bids", "asks"} }
      \cup { Put(PartialDepthData, key, JString(<<"x">>)) : key \in {"lastUpdateId", "bids", "asks"} }
      \cup { Put(PartialDepthData, "bids", JArray(<<JArray(<<JString(<<"1">>)>>)>>)),
             Put(PartialDepthData, "lastUpdateId", JFraction(9)) }

FlatPartialDepthMessages == Malformed \cup { Bytes(d) : d \in PartialDepthPayloads }

CombinedPartialDepthMessages ==
    Malformed
      \cup { Bytes(j) : j \in Envelopes(S_depth \o <<"5">>, PartialDepthPayloads,
                                         {PartialDepthData}) }

S_ORDER_TRADE_UPDATE == <<"O", "R", "D", "E", "R", "_", "T", "R", "A", "D", "E", "_", "U", "P", "D", "A", "T", "E">>
S_ACCOUNT_UPDATE == <<"A", "C", "C", "O", "U", "N", "T", "_", "U", "P", "D", "A", "T", "E">>
S_ACCOUNT_CONFIG_UPDATE == <<"A", "C", "C", "O", "U", "N", "T", "_", "C", "O", "N", "F", "I", "G", "_", "U", "P", "D", "A", "T", "E">>
S_listenKeyExpired == <<"l", "i", "s", "t", "e", "n", "K", "e", "y", "E", "x", "p", "i", "r", "e", "d">>

UserDataEventTypes ==
    { S_ORDER_TRADE_UPDATE, S_ACCOUNT_UPDATE, S_ACCOUNT_CONFIG_UPDATE, S_listenKeyExpired }

\* user-data payloads: every event type with every set of sub-records present
UserDataPayloads ==
    LET full == Sample(WsUserDataEvent)
    IN  { JObject([key \in {"e", "E", "T"} \cup subs |->
                      IF key = "e" THEN JString(ty) ELSE full.o[key]]) :
            ty \in UserDataEventTypes, subs \in SUBSET {"o", "a", "ac"} }
          \cup { Put(full, "o", JNull), Put(full, "o", JString(<<"x">>)), Drop(full, "e") }

UserDataMessages == Malformed \cup { Bytes(d) : d \in UserDataPayloads }

\* envelopes whose data is an array of mark price records
MarkPriceForAllMessages ==
    LET recs == { Put(Sample(WsMarkPriceEvent), "s", JString(s)) : s \in DataSymbols }
        arrays == UNION { [1..n -> recs] : n \in 0..MaxRecords }
    IN  Malformed
          \cup { Bytes(Envelope(S_markPriceArr, JArray(a))) : a \in arrays }
          \cup { Bytes(Envelope(S_markPriceArr, d)) : d \in {JNull, JString(<<"x">>), JObject(<<>>)} }
          \cup { Bytes(Drop(Envelope(S_markPriceArr, JNull), "data")) }
          \cup { Bytes(Envelope(S_markPriceArr, JArray(<<Put(r, "E", JString(<<"x">>))>>))) : r \in recs }

---------------------------------------------------------------------------
(* Connection transport (wsServe): connect, then a read loop that hands     *)
(* each message to the handler until the socket closes, a read fails or the *)
(* stop signal is seen; the done signal is closed when the loop ends.       *)

NoMessage == [none |-> TRUE]

Init ==
    /\ UseTestnet = FALSE
    /\ pc = "idle"
    /\ fn = "none"
    /\ arg = <<>>
    /\ symbol = <<>>
    /\ endpoint = <<>>
    /\ err = "nil"
    /\ dials = 0
    /\ doneC = 0
    /\ stopC = FALSE
    /\ last = "none"
    /\ message = NoMessage
    /\ handlerCalls = 0
    /\ errHandlerCalls = 0
    /\ event = NoEvent
    /\ log = <<>>
    /\ body = [none |-> TRUE]
    /\ res = [v |-> <<>>, nil |-> TRUE]
    /\ resErr = "nil"

\* the caller assigns the process-wide flag (configuration precedes subscribing)
SetUseTestnet ==
    /\ pc = "idle"
    /\ UseTestnet' = ~UseTestnet
    /\ UNCHANGED <<pc, fn, arg, symbol, endpoint, err, dials, doneC, stopC,
                   last, message, handlerCalls, errHandlerCalls, event, log>>
    /\ UNCHANGED restVars

\* wsServe(cfg, wsHandler, errHandler) called by subscribe function f with
\* argument a: dial cfg.Endpoint; on failure return the error, else make the
\* two signals and start the read loop.  One subscription is followed from its
\* subscribe call to the end of its loop; subscriptions share no state.
wsServe(f, a, sym, ep) ==
    /\ pc = "idle"
    /\ fn' = f
    /\ arg' = a
    /\ symbol' = sym
    /\ endpoint' = ep
    /\ dials' = dials + 1
    /\ \E dialed \in BOOLEAN :
          IF dialed THEN pc' = "open" /\ err' = "nil"
                    ELSE pc' = "failed" /\ err' = "dial"
    /\ doneC' = 0
    /\ stopC' = FALSE
    /\ last' = "none"
    /\ message' = NoMessage
    /\ handlerCalls' = 0
    /\ errHandlerCalls' = 0
    /\ event' = NoEvent
    /\ log' = <<>>
    /\ UNCHANGED UseTestnet
    /\ UNCHANGED restVars

\* one iteration of the read loop that does not look at the stop signal
ReadMessage_IgnoresStop(fns, m, out) ==
    /\ pc = "open"
    /\ fn \in fns
    /\ Len(log) < MaxMessages
    /\ last' = "message"
    /\ message' = m
    /\ handlerCalls' = out.handler
    /\ errHandlerCalls' = out.errHandler
    /\ event' = out.event
    /\ log' = Append(log, [n |-> Len(log) + 1, inline |-> out.inline, cb |-> Callback(out)])
    /\ IF out.panic
       THEN pc' = "crashed" /\ doneC' = doneC + 1
       ELSE UNCHANGED <<pc, doneC>>
    /\ UNCHANGED <<UseTestnet, fn, arg, symbol, endpoint, err, dials, stopC>>
    /\ UNCHANGED restVars

\* one iteration of the read loop that treats a decode error as a read error
ReadMessage_EndsOnDecodeError(fns, m, out) ==
    /\ pc = "open"
    /\ ~stopC
    /\ fn \in fns
    /\ Len(log) < MaxMessages
    /\ last' = "message"
    /\ message' = m
    /\ handlerCalls' = out.handler
    /\ errHandlerCalls' = out.errHandler
    /\ event' = out.event
    /\ log' = Append(log, [n |-> Len(log) + 1, inline |-> out.inline, cb |-> Callback(out)])
    /\ pc' = IF out.panic THEN "crashed" ELSE IF out.errHandler > 0 THEN "closed" ELSE pc
    /\ doneC' = IF out.panic \/ out.errHandler > 0 THEN doneC + 1 ELSE doneC
    /\ UNCHANGED <<UseTestnet, fn, arg, symbol, endpoint, err, dials, stopC>>
    /\ UNCHANGED restVars

\* one iteration of the read loop of a subscription made by one of fns: message m is read and
\* the handler runs to its end with outcome out; a panic ends the loop.  The
\* number of messages followed per subscription is bounded by MaxMessages.
ReadMessage(fns, m, out) ==
    /\ pc = "open"
    /\ ~stopC
    /\ fn \in fns
    /\ Len(log) < MaxMessages
    /\ log' = Append(log, [n |-> Len(log) + 1, inline |-> out.inline, cb |-> Callback(out)])
    /\ last' = "message"
    /\ message' = m
    /\ handlerCalls' = out.handler
    /\ errHandlerCalls' = out.errHandler
    /\ event' = out.event
    /\ IF out.panic
       THEN pc' = "crashed" /\ doneC' = doneC + 1
       ELSE UNCHANGED <<pc, doneC>>
    /\ UNCHANGED <<UseTestnet, fn, arg, symbol, endpoint, err, dials, stopC>>
    /\ UNCHANGED restVars

\* the loop ends without closing done
LoopEnds_DoneLeftOpen(why, errCalls) ==
    /\ pc = "open"
    /\ pc' = "closed"
    /\ last' = why
    /\ message' = NoMessage
    /\ handlerCalls' = 0
    /\ errHandlerCalls' = errCalls
    /\ event' = NoEvent
    /\ UNCHANGED <<UseTestnet, fn, arg, symbol, endpoint, err, dials, doneC, stopC, log>>
    /\ UNCHANGED restVars

\* the loop ends: done is closed
LoopEnds(why, errCalls) ==
    /\ pc = "open"
    /\ pc' = "closed"
    /\ doneC' = doneC + 1
    /\ last' = why
    /\ message' = NoMessage
    /\ handlerCalls' = 0
    /\ errHandlerCalls' = errCalls
    /\ event' = NoEvent
    /\ UNCHANGED <<UseTestnet, fn, arg, symbol, endpoint, err, dials, stopC, log>>
    /\ UNCHANGED restVars

\* a read fails: reported once through the error handler
ReadError == LoopEnds("readError", 1)

\* the peer closes the socket normally
SocketClosed == LoopEnds("close", 0)

\* the caller closes the stop signal
CloseStopC ==
    /\ pc \in {"open", "closed"}
    /\ ~stopC
    /\ stopC' = TRUE
    /\ UNCHANGED <<UseTestnet, pc, fn, arg, symbol, endpoint, err, dials, doneC,
                   last, message, handlerCalls, errHandlerCalls, event, log>>
    /\ UNCHANGED restVars

\* the loop sees the closed stop signal on its next iteration
StopObserved == stopC /\ LoopEnds("stop", 0)

---------------------------------------------------------------------------
(* Subscribe functions *)

WsPartialDepthServe ==
    \E s \in Symbols, levels \in Levels :
        wsServe("WsPartialDepthServe", <<s>>, s, WsPartialDepthServe_endpoint(s, levels))

WsPartialDepthServe100Ms ==
    \E s \in Symbols, levels \in Levels :
        wsServe("WsPartialDepthServe100Ms", <<s>>, s, WsPartialDepthServe100Ms_endpoint(s, levels))

WsCombinedPartialDepthServe ==
    \E symbolLevels \in SymbolMaps(Levels) : \E o \in RangeOrders(symbolLevels) :
        wsServe("WsCombinedPartialDepthServe", symbolLevels, <<>>,
                WsCombinedPartialDepthServe_endpoint(symbolLevels, o))

WsDepthServe ==
    \E s \in Symbols : wsServe("WsDepthServe", <<s>>, <<>>, WsDepthServe_endpoint(s))

WsDepthServe100Ms ==
    \E s \in Symbols : wsServe("WsDepthServe100Ms", <<s>>, <<>>, WsDepthServe100Ms_endpoint(s))

WsCombinedDepthServe ==
    \E symbols \in SymbolLists :
        wsServe("WsCombinedDepthServe", symbols, <<>>, WsCombinedDepthServe_endpoint(symbols))

WsCombinedDepthServe100Ms ==
    \E symbols \in SymbolLists :
        wsServe("WsCombinedDepthServe100Ms", symbols, <<>>,
                WsCombinedDepthServe100Ms_endpoint(symbols))

WsCombinedKlineServe ==
    \E symbolIntervalPair \in SymbolMaps(Intervals) : \E o \in RangeOrders(symbolIntervalPair) :
        wsServe("WsCombinedKlineServe", symbolIntervalPair, <<>>,
                WsCombinedKlineServe_endpoint(symbolIntervalPair, o))

WsKlineServe ==
    \E s \in Symbols, interval \in Intervals :
        wsServe("WsKlineServe", <<s>>, <<>>, WsKlineServe_endpoint(s, interval))

WsAggTradeServe ==
    \E s \in Symbols : wsServe("WsAggTradeServe", <<s>>, <<>>, WsAggTradeServe_endpoint(s))

WsCombinedAggTradeServe ==
    \E symbols \in SymbolLists :
        wsServe("WsCombinedAggTradeServe", symbols, <<>>,
                WsCombinedAggTradeServe_endpoint(symbols))

WsAssetIndexServer ==
    wsServe("WsAssetIndexServer", <<>>, <<>>, WsAssetIndexServer_endpoint)

WsTradeServe ==
    \E s \in Symbols : wsServe("WsTradeServe", <<s>>, <<>>, WsTradeServe_endpoint(s))

WsCombinedTradeServe ==
    \E symbols \in SymbolLists :
        wsServe("WsCombinedTradeServe", symbols, <<>>, WsCombinedTradeServe_endpoint(symbols))

WsUserDataServe ==
    \E listenKey \in ListenKeys :
        wsServe("WsUserDataServe", <<>>, <<>>, WsUserDataServe_endpoint(listenKey))

WsCombinedMarketStatServe ==
    \E symbols \in SymbolLists :
        wsServe("WsCombinedMarketStatServe", symbols, <<>>,
                WsCombinedMarketStatServe_endpoint(symbols))

WsMarketStatServe ==
    \E s \in Symbols : wsServe("WsMarketStatServe", <<s>>, <<>>, WsMarketStatServe_endpoint(s))

WsAllMarketsStatServe ==
    wsServe("WsAllMarketsStatServe", <<>>, <<>>, WsAllMarketsStatServe_endpoint)

WsAllMiniMarketsStatServe ==
    wsServe("WsAllMiniMarketsStatServe", <<>>, <<>>, WsAllMiniMarketsStatServe_endpoint)

WsBookTickerServe ==
    \E s \in Symbols : wsServe("WsBookTickerServe", <<s>>, <<>>, WsBookTickerServe_endpoint(s))

WsCombinedBookTickerServe ==
    \E symbols \in SymbolLists :
        wsServe("WsCombinedBookTickerServe", symbols, <<>>,
                WsCombinedBookTickerServe_endpoint(symbols))

WsAllBookTickerServe ==
    wsServe("WsAllBookTickerServe", <<>>, <<>>, WsAllBookTickerServe_endpoint)

WsCombinedMarkPriceForAllServe ==
    wsServe("WsCombinedMarkPriceForAllServe", <<>>, <<>>,
            WsCombinedMarkPriceForAllServe_endpoint)

---------------------------------------------------------------------------
(* The message handlers, run by the read loop *)

wsPartialDepthServe_OnMessage ==
    \E m \in FlatPartialDepthMessages :
        ReadMessage({"WsPartialDepthServe", "WsPartialDepthServe100Ms"}, m,
                    wsPartialDepthServe_wsHandler(symbol, m))

WsCombinedPartialDepthServe_OnMessage ==
    \E m \in CombinedPartialDepthMessages :
        ReadMessage({"WsCombinedPartialDepthServe"}, m, WsCombinedPartialDepthServe_wsHandler(m))

wsDepthServe_OnMessage ==
    \E m \in FlatDepthMessages :
        ReadMessage({"WsDepthServe", "WsDepthServe100Ms"}, m, wsDepthServe_wsHandler(m))

wsCombinedDepthServe_OnMessage ==
    \E m \in CombinedDepthMessages :
        ReadMessage({"WsCombinedDepthServe", "WsCombinedDepthServe100Ms"}, m,
                    wsCombinedDepthServe_wsHandler(m))

WsCombinedKlineServe_OnMessage ==
    \E m \in CombinedMessages(S_kline \o <<"1", "m">>, WsKlineEvent) :
        ReadMessage({"WsCombinedKlineServe"}, m, WsCombinedKlineServe_wsHandler(m))

WsKlineServe_OnMessage ==
    \E m \in FlatMessages(WsKlineEvent) :
        ReadMessage({"WsKlineServe"}, m, WsKlineServe_wsHandler(m))

WsAggTradeServe_OnMessage ==
    \E m \in FlatMessages(WsAggTradeEvent) :
        ReadMessage({"WsAggTradeServe"}, m, WsAggTradeServe_wsHandler(m))

WsCombinedAggTradeServe_OnMessage ==
    \E m \in CombinedMessages(S_aggTrade, WsAggTradeEvent) :
        ReadMessage({"WsCombinedAggTradeServe"}, m, WsCombinedAggTradeServe_wsHandler(m))

WsAssetIndexServer_OnMessage ==
    \E m \in ArrayMessages(WsAssetIndexEvent) :
        ReadMessage({"WsAssetIndexServer"}, m, WsAssetIndexServer_wsHandler(m))

WsTradeServe_OnMessage ==
    \E m \in FlatMessages(WsTradeEvent) :
        ReadMessage({"WsTradeServe"}, m, WsTradeServe_wsHandler(m))

WsCombinedTradeServe_OnMessage ==
    \E m \in CombinedMessages(S_trade, WsTradeEvent) :
        ReadMessage({"WsCombinedTradeServe"}, m, WsCombinedTradeServe_wsHandler(m))

WsUserDataServe_OnMessage ==
    \E m \in UserDataMessages :
        ReadMessage({"WsUserDataServe"}, m, WsUserDataServe_wsHandler(m))

WsCombinedMarketStatServe_OnMessage ==
    \E m \in CombinedMessages(S_ticker, WsMarketStatEvent) :
        ReadMessage({"WsCombinedMarketStatServe"}, m, WsCombinedMarketStatServe_wsHandler(m))

WsMarketStatServe_OnMessage ==
    \E m \in FlatMessages(WsMarketStatEvent) :
        ReadMessage({"WsMarketStatServe"}, m, WsMarketStatServe_wsHandler(m))

WsAllMarketsStatServe_OnMessage ==
    \E m \in ArrayMessages(WsMarketStatEvent) :
        ReadMessage({"WsAllMarketsStatServe"}, m, WsAllMarketsStatServe_wsHandler(m))

WsAllMiniMarketsStatServe_OnMessage ==
    \E m \in ArrayMessages(WsMiniMarketsStatEvent) :
        ReadMessage({"WsAllMiniMarketsStatServe"}, m, WsAllMiniMarketsStatServe_wsHandler(m))

WsBookTickerServe_OnMessage ==
    \E m \in FlatMessages(WsBookTickerEvent) :
        ReadMessage({"WsBookTickerServe"}, m, WsBookTickerServe_wsHandler(m))

WsCombinedBookTickerServe_OnMessage ==
    \E m \in CombinedMessages(S_bookTicker, WsBookTickerEvent) :
        ReadMessage({"WsCombinedBookTickerServe"}, m, WsCombinedBookTickerServe_wsHandler(m))

WsAllBookTickerServe_OnMessage ==
    \E m \in FlatMessages(WsBookTickerEvent) :
        ReadMessage({"WsAllBookTickerServe"}, m, WsAllBookTickerServe_wsHandler(m))

WsCombinedMarkPriceForAllServe_OnMessage ==
    \E m \in MarkPriceForAllMessages :
        ReadMessage({"WsCombinedMarkPriceForAllServe"}, m,
                    WsCombinedMarkPriceForAllServe_wsHandler(m))

---------------------------------------------------------------------------

Next ==
    \/ SetUseTestnet
    \/ WsPartialDepthServe
    \/ WsPartialDepthServe100Ms
    \/ WsCombinedPartialDepthServe
    \/ WsDepthServe
    \/ WsDepthServe100Ms
    \/ WsCombinedDepthServe
    \/ WsCombinedDepthServe100Ms
    \/ WsCombinedKlineServe
    \/ WsKlineServe
    \/ WsAggTradeServe
    \/ WsCombinedAggTradeServe
    \/ WsAssetIndexServer
    \/ WsTradeServe
    \/ WsCombinedTradeServe
    \/ WsUserDataServe
    \/ WsCombinedMarketStatServe
    \/ WsMarketStatServe
    \/ WsAllMarketsStatServe
    \/ WsAllMiniMarketsStatServe
    \/ WsBookTickerServe
    \/ WsCombinedBookTickerServe
    \/ WsAllBookTickerServe
    \/ WsCombinedMarkPriceForAllServe
    \/ wsPartialDepthServe_OnMessage
    \/ WsCombinedPartialDepthServe_OnMessage
    \/ wsDepthServe_OnMessage
    \/ wsCombinedDepthServe_OnMessage
    \/ WsCombinedKlineServe_OnMessage
    \/ WsKlineServe_OnMessage
    \/ WsAggTradeServe_OnMessage
    \/ WsCombinedAggTradeServe_OnMessage
    \/ WsAssetIndexServer_OnMessage
    \/ WsTradeServe_OnMessage
    \/ WsCombinedTradeServe_OnMessage
    \/ WsUserDataServe_OnMessage
    \/ WsCombinedMarketStatServe_OnMessage
    \/ WsMarketStatServe_OnMessage
    \/ WsAllMarketsStatServe_OnMessage
    \/ WsAllMiniMarketsStatServe_OnMessage
    \/ WsBookTickerServe_OnMessage
    \/ WsCombinedBookTickerServe_OnMessage
    \/ WsAllBookTickerServe_OnMessage
    \/ WsCombinedMarkPriceForAllServe_OnMessage
    \/ ReadError
    \/ SocketClosed
    \/ CloseStopC
    \/ StopObserved

Spec == Init /\ [][Next]_vars

---------------------------------------------------------------------------
(* REST: the asset index query of the futures package (AssetIndexService)   *)

\* one AssetIndexResponse, read from element idx of the response array with
\* Get(key).MustString() / MustInt64(): zero values for what is not there
AssetIndexResponse(idx) ==
    [Symbol |-> MustString(Get(idx, "symbol")),
     Time |-> MustInt64(Get(idx, "time")),
     Index |-> MustString(Get(idx, "index")),
     BidBuffer |-> MustString(Get(idx, "bidBuffer")),
     AskBuffer |-> MustString(Get(idx, "askBuffer")),
     BidRate |-> MustString(Get(idx, "bidRate")),
     AskRate |-> MustString(Get(idx, "askRate")),
     AutoExchangeBidBuffer |-> MustString(Get(idx, "autoExchangeBidBuffer")),
     AutoExchangeAskBuffer |-> MustString(Get(idx, "autoExchangeAskBuffer")),
     AutoExchangeBidRate |-> MustString(Get(idx, "autoExchangeBidRate")),
     AutoExchangeAskRate |-> MustString(Get(idx, "autoExchangeAskRate"))]

\* Do with res declared and never made: a nil slice when nothing is appended
Do_ResLeftNil(callFails, d) ==
    LET r == newJSON(d)
        n == Len(MustArray(r.j))
    IN  IF callFails THEN [err |-> "callAPI", res |-> [v |-> <<>>, nil |-> TRUE]]
        ELSE IF r.err THEN [err |-> "newJSON", res |-> [v |-> <<>>, nil |-> TRUE]]
        ELSE [err |-> "nil",
              res |-> [v |-> [i \in 1..n |-> AssetIndexResponse(GetIndex(r.j, i - 1))],
                       nil |-> n = 0]]

\* (s *AssetIndexService) Do: callFails is whether callAPI returned an error,
\* d the body it returned otherwise
Do(callFails, d) ==
    LET r == newJSON(d)
        n == Len(MustArray(r.j))
    IN  IF callFails THEN [err |-> "callAPI", res |-> [v |-> <<>>, nil |-> TRUE]]
        ELSE IF r.err THEN [err |-> "newJSON", res |-> [v |-> <<>>, nil |-> TRUE]]
        ELSE [err |-> "nil",
              res |-> [v |-> [i \in 1..n |-> AssetIndexResponse(GetIndex(r.j, i - 1))],
                       nil |-> FALSE]]

\* a well-formed element of the response array for symbol s
AssetIndexElement(s) ==
    JObject([key \in {"symbol", "time", "index", "bidBuffer", "askBuffer", "bidRate",
                      "askRate", "autoExchangeBidBuffer", "autoExchangeAskBuffer",
                      "autoExchangeBidRate", "autoExchangeAskRate"} |->
        CASE key = "symbol" -> JString(s)
          [] key = "time" -> JNumber(7)
          [] OTHER -> JString(<<"1">>)])

\* elements of a response array: well-formed, lacking or mistyping a field,
\* or no object at all
AssetIndexElements ==
    LET good == AssetIndexElement(<<"B", "T">>)
    IN  { AssetIndexElement(s) : s \in DataSymbols }
          \cup { Drop(good, "symbol"), Put(good, "symbol", JNumber(1)),
                 Put(good, "time", JString(<<"7">>)), Put(good, "time", JFraction(7)),
                 JObject(<<>>), JNull, JString(<<"x">>), JArray(<<>>) }

\* response bodies: arrays of up to MaxRecords elements, JSON that is no
\* array, and bytes that are no JSON
AssetIndexBodies ==
    { Bytes(JArray(a)) : a \in UNION { [1..n -> AssetIndexElements] : n \in 0..MaxRecords } }
      \cup { Bytes(JNull), Bytes(JObject(<<>>)), Bytes(AssetIndexElement(<<"e">>)),
             Bytes(JString(<<"x">>)), Bytes(JNumber(1)), NotJSON }

AssetIndexService_Do ==
    \E callFails \in BOOLEAN, d \in AssetIndexBodies :
        LET out == Do(callFails, d)
        IN  /\ body' = IF callFails THEN [none |-> TRUE] ELSE d
            /\ res' = out.res
            /\ resErr' = out.err
            /\ UNCHANGED wsVars

NextRest == AssetIndexService_Do

SpecRest == Init /\ [][NextRest]_vars

---------------------------------------------------------------------------
(* Properties *)

\* the subscribe functions that take a []string of symbols
ListFns ==
    { "WsCombinedDepthServe", "WsCombinedDepthServe100Ms", "WsCombinedAggTradeServe",
      "WsCombinedTradeServe", "WsCombinedMarketStatServe", "WsCombinedBookTickerServe" }

\* the subscribe functions that take a map from symbol to a parameter
MapFns == { "WsCombinedPartialDepthServe", "WsCombinedKlineServe" }

\* the subscribe functions that use the combined endpoint
CombinedFns == ListFns \cup MapFns \cup { "WsCombinedMarkPriceForAllServe" }

Subscribed == pc # "idle"

\* a subscribe call was made, and not with an empty symbol collection
SubscribedNonEmpty == Subscribed /\ ~(fn \in ListFns \cup MapFns /\ DOMAIN arg = {})

\* the last message is a combined envelope: an object with a string under
\* "stream" and an object under "data"
IsEnvelope ==
    /\ last = "message"
    /\ message.json
    /\ message.j.t = "object"
    /\ {"stream", "data"} \subseteq DOMAIN message.j.o
    /\ message.j.o["stream"].t = "string"
    /\ message.j.o["data"].t = "object"

StreamSymbol == ToUpper(SplitAt0(message.j.o["stream"].s))

\* C1: every combined subscribe function delivers an envelope
\* {"stream": "<sym>@<kind>", "data": {...}} as an event whose Symbol is the
\* uppercased part of stream before the first "@", whatever symbol data holds.
C1_CombinedSymbolFromStream ==
    (SubscribedNonEmpty /\ IsEnvelope /\ handlerCalls = 1) =>
        /\ fn \in {"WsCombinedPartialDepthServe", "WsCombinedDepthServe",
                   "WsCombinedDepthServe100Ms", "WsCombinedKlineServe",
                   "WsCombinedAggTradeServe", "WsCombinedMarketStatServe",
                   "WsCombinedBookTickerServe"}
              => event.Symbol = StreamSymbol
        /\ fn = "WsCombinedTradeServe" => event.Data.Symbol = StreamSymbol

\* C2: a combined subscribe function called with an empty slice or an empty
\* map returns a non-nil error and makes no connection attempt.
C2_EmptyInputFailsFast ==
    (Subscribed /\ fn \in ListFns \cup MapFns /\ DOMAIN arg = {}) =>
        /\ err # "nil"
        /\ dials = 0

\* the stream suffix of each list-based combined subscribe function
ListSuffix(f) ==
    CASE f = "WsCombinedDepthServe" -> S_depth
      [] f = "WsCombinedDepthServe100Ms" -> S_depth \o S_100ms
      [] f = "WsCombinedAggTradeServe" -> S_aggTrade
      [] f = "WsCombinedTradeServe" -> S_trade
      [] f = "WsCombinedMarketStatServe" -> S_ticker
      [] f = "WsCombinedBookTickerServe" -> S_bookTicker

\* s cut at every "/": the segments, empty ones included
RECURSIVE SplitSlash(_)
SplitSlash(s) ==
    IF \E i \in 1..Len(s) : s[i] = "/"
    THEN LET i == CHOOSE i \in 1..Len(s) : s[i] = "/" /\ \A j \in 1..(i - 1) : s[j] # "/"
         IN  <<SubSeq(s, 1, i - 1)>> \o SplitSlash(SubSeq(s, i + 1, Len(s)))
    ELSE <<s>>

CombinedBases == { baseCombinedMainURL, baseCombinedTestnetURL }

\* C3: for a non-empty list of symbols the list-based combined URL builders
\* give a combined base followed by lower(s1)@kind/.../lower(sn)@kind: one
\* segment per input symbol, in input order, no trailing slash, no empty segment.
C3_ListUrlSegments ==
    (Subscribed /\ fn \in ListFns /\ arg # <<>>) =>
        \E base \in CombinedBases :
            /\ HasPrefix(endpoint, base)
            /\ SplitSlash(SubSeq(endpoint, Len(base) + 1, Len(endpoint)))
                 = [i \in 1..Len(arg) |-> ToLower(arg[i]) \o ListSuffix(fn)]

C3_Witness ==
    /\ pc = "open"
    /\ fn = "WsCombinedAggTradeServe"
    /\ Len(arg) = 2
    /\ arg[1] = <<"B", "t">>
    /\ arg[2] = <<"E">>

\* C4: the URL of every subscription starts with the base selected by the
\* test-network flag at the subscribe call: the /ws base for single-stream
\* functions, the /stream?streams= base for combined functions.  (The flag is
\* not assigned after the subscribe call; empty collections are left to C2.)
C4_BaseFollowsFlag ==
    SubscribedNonEmpty =>
        HasPrefix(endpoint,
                  IF fn \in CombinedFns
                  THEN (IF UseTestnet THEN baseCombinedTestnetURL ELSE baseCombinedMainURL)
                  ELSE (IF UseTestnet THEN baseWsTestnetURL ELSE baseWsMainURL))

\* the depth payload of the last message: the message itself in flat mode,
\* data in combined mode
DepthPayloadOf(f, m) ==
    IF f \in {"WsDepthServe", "WsDepthServe100Ms"} THEN m.j ELSE m.j.o["data"]

\* the last message with "pu": 0 added to its depth payload
WithPuZero(f, m) ==
    IF f \in {"WsDepthServe", "WsDepthServe100Ms"}
    THEN Bytes(Put(m.j, "pu", JNumber(0)))
    ELSE Bytes(Put(m.j, "data", Put(m.j.o["data"], "pu", JNumber(0))))

DepthHandler(f, m) ==
    IF f \in {"WsDepthServe", "WsDepthServe100Ms"}
    THEN wsDepthServe_wsHandler(m)
    ELSE wsCombinedDepthServe_wsHandler(m)

DepthFns ==
    { "WsDepthServe", "WsDepthServe100Ms", "WsCombinedDepthServe", "WsCombinedDepthServe100Ms" }

\* C5: a depth event decoded from a message without pu (a depth payload with
\* e, E, s, u, U, b and a) differs from the event decoded from the same message
\* with an explicit pu of 0.
C5_OmittedPuDistinguishable ==
    (/\ SubscribedNonEmpty
     /\ last = "message"
     /\ fn \in DepthFns
     /\ handlerCalls = 1
     /\ message.j.t = "object"
     /\ fn \in {"WsCombinedDepthServe", "WsCombinedDepthServe100Ms"} => IsEnvelope
     /\ {"e", "E", "s", "u", "U", "b", "a"} \subseteq DOMAIN DepthPayloadOf(fn, message).o
     /\ "pu" \notin DOMAIN DepthPayloadOf(fn, message).o)
        => event # DepthHandler(fn, WithPuZero(fn, message)).event

\* C6: no message handler panics, whatever the message.
C6_NoHandlerPanics == SubscribedNonEmpty => pc # "crashed"

\* the two mismatches the claim names: a flat depth message without u, U, b
\* or a, and a combined kline envelope without data
ShapeMismatch ==
    /\ SubscribedNonEmpty
    /\ last = "message"
    /\ message.json
    /\ message.j.t = "object"
    /\ \/ /\ fn \in {"WsDepthServe", "WsDepthServe100Ms"}
          /\ ~({"u", "U", "b", "a"} \subseteq DOMAIN message.j.o)
       \/ /\ fn = "WsCombinedKlineServe"
          /\ "data" \notin DOMAIN message.j.o

\* C7: valid JSON that does not match the shape of the stream kind goes to the
\* error handler and not to the success handler.
C7_MismatchToErrHandler ==
    ShapeMismatch => (errHandlerCalls = 1 /\ handlerCalls = 0)

SubRecords == {"OrderUpdate", "AccountUpdate", "AccountConfigUpdate"}

\* the sub-record the discriminator e selects
SelectedBy(e) ==
    CASE e = S_ORDER_TRADE_UPDATE -> "OrderUpdate"
      [] e = S_ACCOUNT_UPDATE -> "AccountUpdate"
      [] e = S_ACCOUNT_CONFIG_UPDATE -> "AccountConfigUpdate"

\* the json key of each sub-record
SubRecordKey(f) ==
    CASE f = "OrderUpdate" -> "o"
      [] f = "AccountUpdate" -> "a"
      [] f = "AccountConfigUpdate" -> "ac"

\* C8: a delivered user-data event has exactly one sub-record populated, the
\* one its event type selects, whatever keys among o, a, ac the message has
\* (here: messages that do carry the selected sub-record).
C8_ExactlySelectedSubRecord ==
    (/\ last = "message"
     /\ fn = "WsUserDataServe"
     /\ handlerCalls = 1
     /\ event.Event \in {S_ORDER_TRADE_UPDATE, S_ACCOUNT_UPDATE, S_ACCOUNT_CONFIG_UPDATE}
     /\ SubRecordKey(SelectedBy(event.Event)) \in DOMAIN message.j.o)
        => { f \in SubRecords : event[f] # <<>> } = { SelectedBy(event.Event) }

\* C9: whatever the casing of the symbol the caller passes, the URL has it in
\* lower case and delivered events have it in upper case; checked where the
\* symbol of the event is the caller's, the flat partial depth subscriptions.
C9_SymbolCaseRestored ==
    (Subscribed /\ fn \in {"WsPartialDepthServe", "WsPartialDepthServe100Ms"}) =>
        /\ HasPrefix(endpoint, getWsEndpoint \o S_slash \o ToLower(arg[1]) \o S_depth)
        /\ (/\ last = "message"
            /\ handlerCalls = 1
            /\ message.j.t = "object"
            /\ "lastUpdateId" \in DOMAIN message.j.o) => event.Symbol = ToUpper(arg[1])

\* C10: the done signal is closed exactly once, when the read loop has ended
\* (socket closed, read error, stop seen), and never while the loop runs.
C10_DoneClosedOnceAtEnd ==
    /\ doneC <= 1
    /\ pc = "open" => doneC = 0
    /\ pc \in {"closed", "crashed"} => doneC = 1
    /\ pc \in {"idle", "failed"} => doneC = 0

C10_Witness ==
    /\ pc = "closed"
    /\ last = "stop"
    /\ stopC
    /\ doneC = 1

\* C11: once the stop signal is closed, the next step of the read loop closes
\* the done signal without invoking a handler for another message, and once
\* the done signal is closed no handler is invoked again.
C11_StopClosesDone ==
    [][/\ (stopC /\ pc = "open") => (doneC' = 1 /\ handlerCalls' = 0 /\ log' = log)
       /\ doneC = 1 => UNCHANGED <<handlerCalls, errHandlerCalls, event, log>>]_vars

C11_Witness ==
    /\ fn = "WsTradeServe"
    /\ Len(log) >= 1
    /\ log[1].cb = "handler"
    /\ stopC
    /\ last = "stop"
    /\ doneC = 1

HandlerOutcome(f, sym, m) ==
    CASE f \in {"WsPartialDepthServe", "WsPartialDepthServe100Ms"} ->
            wsPartialDepthServe_wsHandler(sym, m)
      [] f = "WsCombinedPartialDepthServe" -> WsCombinedPartialDepthServe_wsHandler(m)
      [] f \in {"WsDepthServe", "WsDepthServe100Ms"} -> wsDepthServe_wsHandler(m)
      [] f \in {"WsCombinedDepthServe", "WsCombinedDepthServe100Ms"} ->
            wsCombinedDepthServe_wsHandler(m)
      [] f = "WsCombinedKlineServe" -> WsCombinedKlineServe_wsHandler(m)
      [] f = "WsKlineServe" -> WsKlineServe_wsHandler(m)
      [] f = "WsAggTradeServe" -> WsAggTradeServe_wsHandler(m)
      [] f = "WsCombinedAggTradeServe" -> WsCombinedAggTradeServe_wsHandler(m)
      [] f = "WsAssetIndexServer" -> WsAssetIndexServer_wsHandler(m)
      [] f = "WsTradeServe" -> WsTradeServe_wsHandler(m)
      [] f = "WsCombinedTradeServe" -> WsCombinedTradeServe_wsHandler(m)
      [] f = "WsUserDataServe" -> WsUserDataServe_wsHandler(m)
      [] f = "WsCombinedMarketStatServe" -> WsCombinedMarketStatServe_wsHandler(m)
      [] f = "WsMarketStatServe" -> WsMarketStatServe_wsHandler(m)
      [] f = "WsAllMarketsStatServe" -> WsAllMarketsStatServe_wsHandler(m)
      [] f = "WsAllMiniMarketsStatServe" -> WsAllMiniMarketsStatServe_wsHandler(m)
      [] f = "WsBookTickerServe" -> WsBookTickerServe_wsHandler(m)
      [] f = "WsCombinedBookTickerServe" -> WsCombinedBookTickerServe_wsHandler(m)
      [] f = "WsAllBookTickerServe" -> WsAllBookTickerServe_wsHandler(m)
      [] f = "WsCombinedMarkPriceForAllServe" -> WsCombinedMarkPriceForAllServe_wsHandler(m)

AllMarketsRecord(f) ==
    IF f = "WsAllMarketsStatServe" THEN WsMarketStatEvent ELSE WsMiniMarketsStatEvent

\* the last message is a bare array of per-symbol records of type T
IsRecordArray(T) ==
    /\ last = "message"
    /\ message.json
    /\ message.j.t = "array"
    /\ \A i \in DOMAIN message.j.a :
          /\ message.j.a[i].t = "object"
          /\ ~Decode(T, message.j.a[i], Zero(T)).err

\* C14: the all-markets ticker and mini-ticker handlers deliver a bare array
\* of n records in one call of the success handler, as a sequence of exactly
\* n decoded records in the order of the array (an empty sequence for n = 0).
C14_ArrayDeliveredInOrder ==
    (/\ fn \in {"WsAllMarketsStatServe", "WsAllMiniMarketsStatServe"}
     /\ IsRecordArray(AllMarketsRecord(fn)))
        => /\ handlerCalls = 1
           /\ errHandlerCalls = 0
           /\ Len(event) = Len(message.j.a)
           /\ \A i \in DOMAIN message.j.a :
                 /\ event[i] # <<>>
                 /\ event[i][1] = Decode(AllMarketsRecord(fn), message.j.a[i],
                                         Zero(AllMarketsRecord(fn))).v
                 /\ event[i][1].Symbol = message.j.a[i].o["s"].s

C14_Witness ==
    /\ fn = "WsAllMiniMarketsStatServe"
    /\ IsRecordArray(WsMiniMarketsStatEvent)
    /\ handlerCalls = 1
    /\ Len(event) = 2
    /\ event[1][1].Symbol = <<"B", "T">>
    /\ event[2][1].Symbol = <<"e">>

\* the same for n = 0
C14_WitnessEmpty ==
    /\ fn = "WsAllMarketsStatServe"
    /\ IsRecordArray(WsMarketStatEvent)
    /\ handlerCalls = 1
    /\ event = <<>>

\* C15: AssetIndexService.Do returns (nil, error) when the API call or the
\* JSON parse fails and (non-nil result, nil) otherwise; the result then has
\* one record per element of the response array, in array order, and is empty
\* when the response is JSON but no array.  (Initially no call has been made.)
C15_DoResults ==
    (body # [none |-> TRUE] \/ resErr # "nil") =>
       /\ resErr # "nil" <=> (body = [none |-> TRUE] \/ ~body.json)
       /\ resErr # "nil" => res.nil
       /\ resErr = "nil" =>
             /\ ~res.nil
             /\ IF body.j.t = "array"
                THEN /\ Len(res.v) = Len(body.j.a)
                     /\ \A i \in DOMAIN body.j.a :
                           /\ res.v[i] = AssetIndexResponse(body.j.a[i])
                           /\ (body.j.a[i].t = "object"
                                  /\ "symbol" \in DOMAIN body.j.a[i].o
                                  /\ body.j.a[i].o["symbol"].t = "string")
                                 => res.v[i].Symbol = body.j.a[i].o["symbol"].s
                ELSE res.v = <<>>

C15_Witness ==
    /\ resErr = "nil"
    /\ ~res.nil
    /\ Len(res.v) = 2
    /\ res.v[1].Symbol = <<"e">>
    /\ res.v[2].Symbol = <<"B", "T">>
    /\ res.v[2].Time = 7

\* C16: for every subscribe function and every message, the success handler
\* and the error handler are each invoked at most once and never both; for a
\* message that is not JSON the error handler is invoked exactly once and the
\* success handler not at all.
C16_AtMostOneCallback ==
    last = "message" =>
        /\ handlerCalls <= 1
        /\ errHandlerCalls <= 1
        /\ handlerCalls + errHandlerCalls <= 1
        /\ log[Len(log)].cb # "both"
        /\ ~message.json => (errHandlerCalls = 1 /\ handlerCalls = 0 /\ pc = "open")

C16_Witness ==
    /\ fn = "WsCombinedKlineServe"
    /\ last = "message"
    /\ message = NotJSON
    /\ errHandlerCalls = 1
    /\ handlerCalls = 0

\* a depth payload with e, E, s, u, U, b and a, each of its JSON type: e and
\* s strings, E, u, U (and pu, if there) numbers, b and a arrays of levels
\* that are arrays of two strings
TypedDepthPayload(d) ==
    /\ d.t = "object"
    /\ {"e", "E", "s", "u", "U", "b", "a"} \subseteq DOMAIN d.o
    /\ d.o["e"].t = "string"
    /\ d.o["s"].t = "string"
    /\ \A key \in {"E", "u", "U", "pu"} \cap DOMAIN d.o : d.o[key].t = "number"
    /\ LevelsAssertOk(d.o["b"])
    /\ LevelsAssertOk(d.o["a"])

\* C17: the flat and the combined depth decoders agree: for a depth payload d
\* with e, E, s, u, U, b, a (with or without pu) whose s is upper case, the
\* event wsDepthServe delivers for d equals the event wsCombinedDepthServe
\* delivers for {"stream": lower(s) + "@depth", "data": d}.  (Read for payloads
\* whose values have the JSON types of the fields.)
C17_FlatCombinedAgree ==
    (/\ fn \in {"WsDepthServe", "WsDepthServe100Ms"}
     /\ last = "message"
     /\ message.json
     /\ TypedDepthPayload(message.j)
     /\ ToUpper(message.j.o["s"].s) = message.j.o["s"].s)
        => LET d == message.j
               combined == wsCombinedDepthServe_wsHandler(
                               Bytes(Envelope(ToLower(d.o["s"].s) \o S_depth, d)))
           IN  /\ handlerCalls = 1
               /\ combined.handler = 1
               /\ combined.event = event

\* the agreement that does hold: payloads whose numbers are within int64
C17_AgreeWithinInt64 ==
    (/\ fn \in {"WsDepthServe", "WsDepthServe100Ms"}
     /\ last = "message"
     /\ message.json
     /\ TypedDepthPayload(message.j)
     /\ \A key \in {"E", "u", "U", "pu"} \cap DOMAIN message.j.o : ~message.j.o[key].over
     /\ ToUpper(message.j.o["s"].s) = message.j.o["s"].s)
        => LET d == message.j
               combined == wsCombinedDepthServe_wsHandler(
                               Bytes(Envelope(ToLower(d.o["s"].s) \o S_depth, d)))
           IN  /\ handlerCalls = 1
               /\ combined.handler = 1
               /\ combined.event = event

\* the stream infix of each map-based combined subscribe function
MapInfix(f) == IF f = "WsCombinedKlineServe" THEN S_kline ELSE S_depth

\* the segment of map entry k -> v
MapSegment(f, k, v) == ToLower(k) \o MapInfix(f) \o v

\* the segments of the URL after the combined base it starts with
UrlSegments ==
    LET base == CHOOSE b \in CombinedBases : HasPrefix(endpoint, b)
    IN  SplitSlash(SubSeq(endpoint, Len(base) + 1, Len(endpoint)))

\* the URL is a combined base followed by one segment per entry of the map,
\* in some order of the entries, joined by single slashes, none trailing
OneSegmentPerEntry ==
    /\ \E b \in CombinedBases : HasPrefix(endpoint, b)
    /\ \E o \in RangeOrders(arg) :
          UrlSegments = [i \in DOMAIN o |-> MapSegment(fn, o[i], arg[o[i]])]
    /\ { UrlSegments[i] : i \in DOMAIN UrlSegments }
         = { MapSegment(fn, k, arg[k]) : k \in DOMAIN arg }

NoEqualSegments ==
    \A i, j \in DOMAIN UrlSegments : i # j => UrlSegments[i] # UrlSegments[j]

\* C18: for a non-empty map the map-based combined URL builders give the
\* combined base followed by exactly one segment per entry, lower(symbol)@kline_
\* <interval> or lower(symbol)@depth<level>, joined by single slashes with none
\* trailing; the set of segments does not depend on the iteration order, and
\* no two segments are equal.
C18_MapUrlSegments ==
    (Subscribed /\ fn \in MapFns /\ DOMAIN arg # {}) =>
        (OneSegmentPerEntry /\ NoEqualSegments)

\* C18 as it holds: the segments are pairwise different when no two symbols of
\* the map are equal up to case (or their parameters differ); two keys that
\* differ only in case, with the same parameter, give the same segment twice.
C18_MapUrlSegments_Amended ==
    (Subscribed /\ fn \in MapFns /\ DOMAIN arg # {}) =>
        /\ OneSegmentPerEntry
        /\ (\A k1, k2 \in DOMAIN arg :
               k1 # k2 => (ToLower(k1) # ToLower(k2) \/ arg[k1] # arg[k2]))
              => NoEqualSegments

C18_Witness ==
    /\ pc = "open"
    /\ fn = "WsCombinedKlineServe"
    /\ DOMAIN arg = { <<"B", "t">>, <<"E">> }
    /\ arg[<<"B", "t">>] = <<"1", "m">>
    /\ arg[<<"E">>] = <<"5", "m">>
    /\ NoEqualSegments
    /\ Len(UrlSegments) = 2

====
